---- MODULE Spec2Model ----
(***************************************************************************)
(* Verification model of the docker_auth token service:                    *)
(*   - the GitHub OAuth authenticator (auth_server/authn/github_auth.go):  *)
(*     browser flow, Authenticate, revalidation of expired server tokens;  *)
(*   - the TokenDB it stores its tokens in (contract of spec.md, 4.C);     *)
(*   - the static users authenticator;                                     *)
(*   - configuration validation and key loading (validate, LoadConfig).    *)
(***************************************************************************)
EXTENDS Integers, Sequences, FiniteSets, Bags, TLC

(***************************************************************************)
(* Bounds of the model.                                                    *)
(***************************************************************************)
MaxTime == 2             \* the clock runs over 0..MaxTime
MaxDP == 2               \* uniuri.New() draws a database password from 1..MaxDP
MaxRevalidateAfter == 1  \* config.RevalidateAfter ranges over 1..MaxRevalidateAfter
MaxPages == 3            \* pages of one team listing

(***************************************************************************)
(* Values.                                                                 *)
(***************************************************************************)
Users == {"alice", "bob"}
Logins == Users                    \* GitHubTokenUser.Login values the provider answers with
BrowserLogins == {"alice"}         \* the accounts that go through the browser flow
AccessTokens == {"tokA", "tokB"}
Organizations == {"", "acme"}      \* config.Organization; "" = none configured
Passwords == 0..MaxDP              \* 0 is a password uniuri never issues

Nil == [nil |-> TRUE]              \* a nil pointer / nil map / nil slice
NoHash == [alg |-> "none"]         \* the empty DockerPassword string

\* errors, by the message or sentinel the code returns
ErrNil == "nil"
NoMatch == "NoMatch"
WrongPass == "WrongPass"
ExpiredToken == "ExpiredToken"
ErrDB == "token db error"
ErrNoDBValue == "no db value, please sign out and sign in again"
ErrServerTokenInvalid == "server token invalid"
ErrWrongUser == "found token for wrong user"
ErrStoreRenewed == "Unable to store renewed token expiry time"

VARIABLES
  config,    \* GitHubAuthConfig: Organization, RevalidateAfter
  db,        \* TokenDB: user -> TokenDBValue or Nil
  now,       \* time.Now()
  last,      \* the last request handled with its inputs and its outcome
  users,     \* staticUsersAuth.users
  sres,      \* last staticUsersAuth.Authenticate call and result
  cfg,       \* Config handed to validate / LoadConfig
  cres,      \* outcome of LoadConfig on cfg
  calls,     \* what the handlers of the requests in flight hold, between their steps
  issued     \* the login, DP and access token of the last browser flow that stored

vars == <<config, db, now, last, users, sres, cfg, cres, calls, issued>>

(***************************************************************************)
(* bcrypt: a hash records the password it was generated from; comparing    *)
(* succeeds for that password only, and never for the empty hash.          *)
(***************************************************************************)
GenerateFromPassword(p) == [alg |-> "bcrypt", of |-> p]

CompareHashAndPassword(h, p) == h.alg = "bcrypt" /\ h.of = p

(***************************************************************************)
(* TokenDB (spec.md 4.C, "TokenDB contract").                              *)
(***************************************************************************)
GetValue(d, user, fails) ==
  IF fails THEN [v |-> Nil, err |-> ErrDB] ELSE [v |-> d[user], err |-> ErrNil]

ValidateToken(d, user, password, t, fails) ==
  LET r == GetValue(d, user, fails)
  IN  IF r.err # ErrNil THEN r.err
      ELSE IF r.v = Nil THEN NoMatch
      ELSE IF ~CompareHashAndPassword(r.v.DockerPassword, password) THEN WrongPass
      ELSE IF t > r.v.ValidUntil THEN ExpiredToken
      ELSE ErrNil

\* dp is the password uniuri would generate
StoreToken(d, user, v, generateDP, dp, fails) ==
  LET w == IF generateDP THEN [v EXCEPT !.DockerPassword = GenerateFromPassword(dp)] ELSE v
  IN  IF fails THEN [db |-> d, dp |-> 0, err |-> ErrDB, gen |-> generateDP]
      ELSE [db |-> [d EXCEPT ![user] = w],
            dp |-> IF generateDP THEN dp ELSE 0,
            err |-> ErrNil,
            gen |-> generateDP]

(***************************************************************************)
(* The provider's answers, as the requests of one handler see them.        *)
(***************************************************************************)
StatusNoContent == 204
StatusNotFound == 404
StatusFound == 302
StatusOK == 200
StatusBadRequest == 400
StatusInternalServerError == 500
StatusServiceUnavailable == 503

\* GET /orgs/:org/members/:user: the transport fails or a status comes back
MemberResponses ==
  {[neterr |-> TRUE, status |-> 0]} \cup
  {[neterr |-> FALSE, status |-> s] :
      s \in {StatusNoContent, StatusNotFound, StatusFound, StatusInternalServerError}}

NoMember == [neterr |-> FALSE, status |-> 0]   \* no membership request is made

\* POST /login/oauth/access_token
ExchangeResponses ==
  {[kind |-> k, AccessToken |-> "", TokenType |-> ""] :
      k \in {"neterr", "parseerr", "oautherr"}} \cup
  {[kind |-> "ok", AccessToken |-> t, TokenType |-> "bearer"] : t \in AccessTokens}

\* GET /user/teams: page k of the listing is element k of a sequence; a URL is
\* the number of the page it names and 0 is the empty URL.
Team(slug, org, parent) == [Slug |-> slug, Organization |-> org, Parent |-> parent]

LinkItem(url, rel) == [url |-> url, rel |-> rel]

Page(status, teams, link) == [status |-> status, teams |-> teams, link |-> link]

NoLink == [present |-> FALSE, items |-> <<>>]      \* the response has no Link header

Link(items) == [present |-> TRUE, items |-> items]

\* the listings a browser flow is answered with: one that fails and one of two
\* pages
TeamPageChains ==
  { <<Page("neterr", <<>>, NoLink)>>,
    <<Page("ok", <<Team("dev", "acme", [Slug |-> "ops"])>>,
           Link(<<LinkItem(2, "next"), LinkItem(2, "last")>>)),
      Page("ok", <<Team("ops", "acme", Nil), Team("dev", "other", Nil)>>,
           Link(<<LinkItem(1, "prev"), LinkItem(1, "first")>>))>> }

\* team listings of up to MaxPages pages: each page fails, or carries one of
\* TeamLists and no Link header, a Link header without rel="next", or one
\* whose rel="next" names the page after it
TeamLists ==
  { <<>>,
    <<Team("dev", "acme", Nil)>>,
    <<Team("dev", "acme", [Slug |-> "ops"]), Team("web", "other", [Slug |-> "sec"])>>,
    <<Team("ops", "acme", Nil), Team("dev", "acme", Nil), Team("qa", "other", Nil)>> }

PageKinds ==
  {[status |-> st, teams |-> <<>>, next |-> "none"] : st \in {"neterr", "parseerr"}} \cup
  {[status |-> "ok", teams |-> tl, next |-> k] :
      tl \in TeamLists, k \in {"none", "prev", "next"}}

LinkOf(kind, i, n) ==
  IF kind = "none" THEN NoLink
  ELSE IF kind = "prev" THEN Link(<<LinkItem(1, "first"), LinkItem(i - 1, "prev")>>)
  ELSE Link(<<LinkItem(i + 1, "next"), LinkItem(n, "last")>>)

PageChains(n) ==
  { [i \in 1..n |-> Page(f[i].status, f[i].teams, LinkOf(f[i].next, i, n))] :
      f \in {g \in [1..n -> PageKinds] : g[n].next # "next"} }

(***************************************************************************)
(* parseLinkHeader: the last item of each relation wins.                   *)
(***************************************************************************)
RECURSIVE parseLinkItems(_, _)
parseLinkItems(items, lH) ==
  IF items = <<>> THEN lH
  ELSE LET it == Head(items)
           nlH == IF it.rel = "first" THEN [lH EXCEPT !.First = it.url]
                  ELSE IF it.rel = "last" THEN [lH EXCEPT !.Last = it.url]
                  ELSE IF it.rel = "next" THEN [lH EXCEPT !.Next = it.url]
                  ELSE IF it.rel = "prev" THEN [lH EXCEPT !.Prev = it.url]
                  ELSE lH
       IN  parseLinkItems(Tail(items), nlH)

\* variant: the next relation is dropped
parseLinkHeader_NoNext(linkLines) ==
  [parseLinkItems(linkLines, [First |-> 0, Last |-> 0, Next |-> 0, Prev |-> 0])
     EXCEPT !.Next = 0]

parseLinkHeader(linkLines) ==
  parseLinkItems(linkLines, [First |-> 0, Last |-> 0, Next |-> 0, Prev |-> 0])

(***************************************************************************)
(* fetchTeams.                                                             *)
(***************************************************************************)
\* the loop of fetchTeams from the request of url on; requests are the URLs
\* requested, in order
RECURSIVE fetchPages(_, _, _)
fetchPages(pages, url, allTeams) ==
  IF url = 0 THEN [teams |-> allTeams, err |-> ErrNil, requests |-> <<>>]
  ELSE IF url \notin DOMAIN pages \/ pages[url].status = "neterr"
       THEN [teams |-> <<>>, err |-> "HTTP error while retrieving", requests |-> <<url>>]
  ELSE IF pages[url].status = "parseerr"
       THEN [teams |-> <<>>, err |-> "Error parsing the JSON response while fetching teams",
             requests |-> <<url>>]
  ELSE LET rest == fetchPages(pages,
                     IF pages[url].link.present
                       THEN parseLinkHeader(pages[url].link.items).Next ELSE 0,
                     allTeams \o pages[url].teams)
       IN  [rest EXCEPT !.requests = <<url>> \o @]

\* variant: the parents of the teams are left out
organizationTeams_NoParents(org, allTeams) ==
  {allTeams[i].Slug : i \in {j \in DOMAIN allTeams : allTeams[j].Organization = org}}

organizationTeams(org, allTeams) ==
  UNION { {allTeams[i].Slug} \cup
          (IF allTeams[i].Parent # Nil THEN {allTeams[i].Parent.Slug} ELSE {}) :
          i \in {j \in DOMAIN allTeams : allTeams[j].Organization = org} }

\* the nil slice is the empty set of slugs
fetchTeams(org, pages) ==
  IF org = "" THEN [teams |-> {}, err |-> ErrNil, asked |-> FALSE, requests |-> <<>>]
  ELSE LET r == fetchPages(pages, 1, <<>>)
       IN  IF r.err # ErrNil
             THEN [teams |-> {}, err |-> r.err, asked |-> TRUE, requests |-> r.requests]
           ELSE [teams |-> organizationTeams(org, r.teams), err |-> ErrNil, asked |-> TRUE,
                 requests |-> r.requests]

(***************************************************************************)
(* checkOrganization and validateAccessToken.                              *)
(***************************************************************************)
\* variant: a redirect of the membership request counts as membership
checkOrganization_AcceptsFound(org, memberResp) ==
  IF org = "" THEN ErrNil
  ELSE IF memberResp.neterr THEN "membership request failed"
  ELSE IF memberResp.status \in {StatusNoContent, StatusFound} THEN ErrNil
  ELSE IF memberResp.status = StatusNotFound THEN "user is not a member of organization"
  ELSE "Unknown status for membership of organization"

checkOrganization(org, memberResp) ==
  IF org = "" THEN ErrNil
  ELSE IF memberResp.neterr THEN "membership request failed"
  ELSE IF memberResp.status = StatusNoContent THEN ErrNil
  ELSE IF memberResp.status = StatusNotFound THEN "user is not a member of organization"
  ELSE IF memberResp.status = StatusFound THEN "token could not get membership for organization"
  ELSE "Unknown status for membership of organization"

\* variant: the organization is not checked
validateAccessToken_SkipsOrganization(org, userResp, memberResp) ==
  IF userResp = "neterr" THEN [user |-> "", err |-> "could not verify token"]
  ELSE IF userResp = "parseerr" THEN [user |-> "", err |-> "could not unmarshal token user info"]
  ELSE [user |-> userResp, err |-> ErrNil]

validateAccessToken(org, userResp, memberResp) ==
  IF userResp = "neterr" THEN [user |-> "", err |-> "could not verify token"]
  ELSE IF userResp = "parseerr" THEN [user |-> "", err |-> "could not unmarshal token user info"]
  ELSE IF checkOrganization(org, memberResp) # ErrNil
       THEN [user |-> "", err |-> "could not validate organization"]
  ELSE [user |-> userResp, err |-> ErrNil]

\* the membership answers a handler can see: none when no request is made
MemberInputs(org, userResp) ==
  IF org # "" /\ userResp \in Logins THEN MemberResponses ELSE {NoMember}

(***************************************************************************)
(* Inputs of one step of a handler: what the provider answers, and whether *)
(* the TokenDB call of the step fails.                                     *)
(***************************************************************************)
ProviderInputs(org, logins) ==
  UNION { {[userResp |-> u, memberResp |-> m] : m \in MemberInputs(org, u)} :
          u \in {"neterr", "parseerr"} \cup logins }

NoProvider == [userResp |-> "unasked", memberResp |-> NoMember]

\* the provider endpoints validateAccessToken contacts
askedBy(org, p) ==
  {"user"} \cup (IF org # "" /\ p.userResp \in Logins THEN {"member"} ELSE {})

\* what a request leaves in last; the fields a handler does not set keep these
Idle ==
  [op |-> "idle", user |-> "", password |-> 0, verr |-> ErrNil,
   prov |-> NoProvider, asked |-> {}, store |-> "none", genDP |-> FALSE,
   argUser |-> "", arg |-> Nil, dbFailed |-> "none",
   ok |-> FALSE, labels |-> Nil, err |-> ErrNil,
   token |-> "", teams |-> {}, teamsErr |-> ErrNil,
   status |-> 0, shownUser |-> "", shownDP |-> 0,
   pages |-> <<>>, requests |-> <<>>]

(***************************************************************************)
(* Handlers run concurrently and github_auth.go takes no lock, so a        *)
(* handler is a sequence of steps: one for each of its TokenDB calls, one  *)
(* for the arrival of the provider's answers (the clock is read as they    *)
(* arrive) and one for the result page.  A step that ends in a return      *)
(* statement includes the return.  Between two of its steps a handler      *)
(* holds the value it works on (v), the password StoreToken returned (dp)  *)
(* and the record of what it did so far (req).  A step gives the TokenDB   *)
(* after it, what the handler holds then, and the record of the request    *)
(* when it returns.                                                        *)
(***************************************************************************)
NoCall == [pc |-> "idle", v |-> Nil, dp |-> 0, req |-> Idle]

Pending(d, pc, v, dp, req) ==
  [db |-> d, call |-> [pc |-> pc, v |-> v, dp |-> dp, req |-> req], last |-> Idle]

Returned(d, req) == [db |-> d, call |-> NoCall, last |-> req]

(***************************************************************************)
(* Authenticate and validateServerToken.                                   *)
(***************************************************************************)
\* variant: every failure is reported as NoMatch
authFailure_NoMatch(req, err) == [req EXCEPT !.ok = FALSE, !.labels = Nil, !.err = NoMatch]

\* return false, nil, err
authFailure(req, err) == [req EXCEPT !.ok = FALSE, !.labels = Nil, !.err = err]

\* variant: success is returned without the labels
authLabels_NoLabels(req, g) ==
  IF g.err # ErrNil THEN authFailure([req EXCEPT !.dbFailed = "final"], g.err)
  ELSE IF g.v = Nil THEN authFailure(req, ErrNoDBValue)
  ELSE [req EXCEPT !.ok = TRUE, !.labels = Nil, !.err = ErrNil]

\* the last lines of Authenticate: the value read and the return of its labels
authLabels(req, g) ==
  IF g.err # ErrNil THEN authFailure([req EXCEPT !.dbFailed = "final"], g.err)
  ELSE IF g.v = Nil THEN authFailure(req, ErrNoDBValue)
  ELSE [req EXCEPT !.ok = TRUE, !.labels = g.v.Labels, !.err = ErrNil]

\* variant: a valid token is revalidated too
needsRevalidation_Always(verr) == verr \in {ExpiredToken, ErrNil}

\* variant: a wrong password on a stored token is revalidated too
needsRevalidation_WrongPass(verr) == verr \in {ExpiredToken, WrongPass}

\* "if err == ExpiredToken"
needsRevalidation(verr) == verr = ExpiredToken

\* variant: the stored expiry is extended instead of restarted from now
renewedValue_FromStored(cf, v, t) ==
  [v EXCEPT !.ValidUntil = v.ValidUntil + cf.RevalidateAfter]

\* "Update revalidation timestamp"
renewedValue(cf, v, t) == [v EXCEPT !.ValidUntil = t + cf.RevalidateAfter]

\* variant: the write-back loses the entry
storeRenewedToken_Drops(d, user, v, fails) ==
  [StoreToken(d, user, v, FALSE, 0, fails) EXCEPT !.db = [d EXCEPT ![user] = Nil]]

\* "Update token"
storeRenewedToken(d, user, v, fails) == StoreToken(d, user, v, FALSE, 0, fails)

\* variant: a token the provider does not confirm is evicted
tokenRejected_Evicts(d, called, err) ==
  Returned([d EXCEPT ![called.user] = Nil], authFailure(called, err))

\* the provider does not confirm the token: validateServerToken returns the
\* error, Authenticate returns it, and the stored entry is left alone
tokenRejected(d, called, err) == Returned(d, authFailure(called, err))

\* Authenticate: ValidateToken and the branch on its error
Authenticate_ValidateToken(d, t, user, password, fails) ==
  LET verr == ValidateToken(d, user, password, t, fails)
      req == [Idle EXCEPT !.op = "Authenticate", !.user = user,
                          !.password = password, !.verr = verr]
  IN  IF needsRevalidation(verr) THEN Pending(d, "get", Nil, 0, req)
      ELSE IF verr # ErrNil
        THEN Returned(d, authFailure([req EXCEPT !.dbFailed =
                                        IF fails THEN "validate" ELSE "none"],
                                     verr))
      ELSE Pending(d, "final", Nil, 0, req)

\* validateServerToken: GetValue
validateServerToken_GetValue(d, c, fails) ==
  LET g == GetValue(d, c.req.user, fails)
  IN  IF g.err # ErrNil
        THEN Returned(d, authFailure([c.req EXCEPT !.dbFailed = "get"], g.err))
      ELSE IF g.v = Nil THEN Returned(d, authFailure(c.req, ErrNoDBValue))
      ELSE Pending(d, "provider", g.v, 0, c.req)

\* validateServerToken: validateAccessToken on the token read, the comparison
\* of the users, and the new expiry from the clock
validateServerToken_validateAccessToken(cf, d, t, c, p) ==
  LET a == validateAccessToken(cf.Organization, p.userResp, p.memberResp)
      called == [c.req EXCEPT !.prov = p, !.asked = askedBy(cf.Organization, p)]
  IN  IF a.err # ErrNil THEN tokenRejected(d, called, ErrServerTokenInvalid)
      ELSE IF a.user # c.req.user THEN tokenRejected(d, called, ErrWrongUser)
      ELSE Pending(d, "renew", renewedValue(cf, c.v, t), 0, called)

\* validateServerToken: StoreToken of the value read, with its new expiry
validateServerToken_StoreToken(d, c, fails) ==
  LET s == storeRenewedToken(d, c.req.user, c.v, fails)
      wrote == [c.req EXCEPT !.argUser = c.req.user, !.arg = c.v]
  IN  IF s.err # ErrNil
        THEN Returned(s.db, authFailure([wrote EXCEPT !.store = "failed",
                                                      !.dbFailed = "store"],
                                        ErrStoreRenewed))
      ELSE Pending(s.db, "final", c.v, 0, [wrote EXCEPT !.store = "ok"])

\* Authenticate: the final GetValue and the return
Authenticate_GetValue(d, c, fails) ==
  Returned(d, authLabels(c.req, GetValue(d, c.req.user, fails)))

(***************************************************************************)
(* doGitHubAuthCreateToken: the browser flow's code exchange.              *)
(***************************************************************************)
NoPages == <<>>

\* variant: the new token expires at once
newTokenValue_NoExpiry(cf, exch, t, userTeams) ==
  [TokenType |-> exch.TokenType,
   AccessToken |-> exch.AccessToken,
   ValidUntil |-> t,
   Labels |-> [teams |-> userTeams],
   DockerPassword |-> NoHash]

\* the TokenDBValue of a newly acquired token
newTokenValue(cf, exch, t, userTeams) ==
  [TokenType |-> exch.TokenType,
   AccessToken |-> exch.AccessToken,
   ValidUntil |-> t + cf.RevalidateAfter,
   Labels |-> [teams |-> userTeams],
   DockerPassword |-> NoHash]

\* variant: the new token is stored without generating a password
storeNewToken_KeepsDP(d, user, v, dp, fails) == StoreToken(d, user, v, FALSE, dp, fails)

storeNewToken(d, user, v, dp, fails) == StoreToken(d, user, v, TRUE, dp, fails)

\* the code exchange, validateAccessToken, fetchTeams and the value to store
doGitHubAuthCreateToken_Exchange(cf, d, t, exch, p, pages) ==
  LET req == [Idle EXCEPT !.op = "CreateToken", !.asked = {"exchange"}]
      a == validateAccessToken(cf.Organization, p.userResp, p.memberResp)
      val == [req EXCEPT !.token = exch.AccessToken, !.prov = p,
                         !.asked = {"exchange"} \cup askedBy(cf.Organization, p)]
      ft == fetchTeams(cf.Organization, pages)
      got == [val EXCEPT !.user = a.user, !.teams = ft.teams, !.teamsErr = ft.err,
                         !.asked = @ \cup (IF ft.asked THEN {"teams"} ELSE {})]
  IN  IF exch.kind = "neterr"
        THEN Returned(d, [req EXCEPT !.status = StatusServiceUnavailable,
                                     !.err = "Error talking to GitHub auth backend"])
      ELSE IF exch.kind # "ok"
        THEN Returned(d, [req EXCEPT !.status = StatusBadRequest,
                                     !.err = "Failed to get token"])
      ELSE IF a.err # ErrNil
        THEN Returned(d, [val EXCEPT !.status = StatusInternalServerError,
                                     !.err = "Newly-acquired token is invalid"])
      ELSE Pending(d, "store", newTokenValue(cf, exch, t, ft.teams), 0, got)

\* StoreToken(user, v, true); dp is the password uniuri would generate
doGitHubAuthCreateToken_StoreToken(d, c, dp, fails) ==
  LET s == storeNewToken(d, c.req.user, c.v, dp, fails)
      called == [c.req EXCEPT !.genDP = s.gen, !.argUser = c.req.user, !.arg = c.v]
  IN  IF s.err # ErrNil
        THEN Returned(s.db, [called EXCEPT !.store = "failed", !.dbFailed = "store",
                                           !.status = StatusInternalServerError,
                                           !.err = "Failed to record server token"])
      ELSE Pending(s.db, "page", c.v, s.dp, [called EXCEPT !.store = "ok"])

\* the page that shows the user and the password StoreToken returned
doGitHubAuthResultPage(d, c) ==
  Returned(d, [c.req EXCEPT !.ok = TRUE, !.status = StatusOK,
                            !.shownUser = c.req.user, !.shownDP = c.dp])

(***************************************************************************)
(* staticUsersAuth.                                                        *)
(***************************************************************************)
StaticNames == {"ci", "dev"}              \* users the map may configure
StaticCallers == StaticNames \cup {"ghost"}
StaticPasswords == {"", "x", "y"}
StaticLabels == {Nil, [group |-> {"admin"}]}

\* Requirements.Password: nil, a bcrypt hash, or a string that is no hash
StaticHashes ==
  {Nil, [alg |-> "invalid"]} \cup {GenerateFromPassword(p) : p \in {"", "x"}}

Requirements == [Password : StaticHashes, Labels : StaticLabels]

SIdle == [called |-> FALSE, user |-> "", password |-> "",
          ok |-> FALSE, labels |-> Nil, err |-> ErrNil]

\* variant: a wrong password is reported as an unknown user
staticAuthenticate_MismatchNoMatch(us, user, password) ==
  LET reqs == IF user \in DOMAIN us THEN us[user] ELSE Nil
      call == [SIdle EXCEPT !.called = TRUE, !.user = user, !.password = password]
  IN  IF reqs = Nil THEN [call EXCEPT !.err = NoMatch]
      ELSE IF reqs.Password # Nil /\ ~CompareHashAndPassword(reqs.Password, password)
        THEN [call EXCEPT !.err = NoMatch]
      ELSE [call EXCEPT !.ok = TRUE, !.labels = reqs.Labels]

\* variant: a user without a password is never authenticated
staticAuthenticate_PasswordRequired(us, user, password) ==
  LET reqs == IF user \in DOMAIN us THEN us[user] ELSE Nil
      call == [SIdle EXCEPT !.called = TRUE, !.user = user, !.password = password]
  IN  IF reqs = Nil THEN [call EXCEPT !.err = NoMatch]
      ELSE IF reqs.Password = Nil \/ ~CompareHashAndPassword(reqs.Password, password)
        THEN call
      ELSE [call EXCEPT !.ok = TRUE, !.labels = reqs.Labels]

staticAuthenticate(us, user, password) ==
  LET reqs == IF user \in DOMAIN us THEN us[user] ELSE Nil
      call == [SIdle EXCEPT !.called = TRUE, !.user = user, !.password = password]
  IN  IF reqs = Nil THEN [call EXCEPT !.err = NoMatch]
      ELSE IF reqs.Password # Nil /\ ~CompareHashAndPassword(reqs.Password, password)
        THEN call
      ELSE [call EXCEPT !.ok = TRUE, !.labels = reqs.Labels]

(***************************************************************************)
(* Configuration: the files validate and LoadConfig read, and the values   *)
(* of the Config struct they are given.                                    *)
(***************************************************************************)
\* ioutil.ReadFile: a secret file with its content, or an error
ReadFile(name) ==
  IF name = "secret.txt" THEN [err |-> ErrNil, contents |-> " s3cret\n"]
  ELSE IF name = "blank.txt" THEN [err |-> ErrNil, contents |-> " \n"]
  ELSE [err |-> "could not read", contents |-> ""]

TrimSpace(str) ==
  IF str = " s3cret\n" THEN "s3cret" ELSE IF str = " \n" THEN "" ELSE str

\* strings.HasPrefix(p, "/") over the path prefixes of the model
HasSlashPrefix(p) == p \in {"/", "/auth"}

\* os.Stat(dir) succeeds and IsDir
IsDir(name) == name = "/cache"

\* loadCertAndKey: a certificate and the key that belongs to it load
loadCertAndKey(certFile, keyFile) ==
  IF certFile = "server.crt" /\ keyFile = "server.key"
    THEN [err |-> ErrNil, publicKey |-> "server.pub", privateKey |-> "server.priv"]
  ELSE IF certFile = "token.crt" /\ keyFile = "token.key"
    THEN [err |-> ErrNil, publicKey |-> "token.pub", privateKey |-> "token.priv"]
  ELSE [err |-> "tls: failed to load key pair", publicKey |-> "", privateKey |-> ""]

NoKeys == [publicKey |-> "", privateKey |-> ""]

\* a sub-configuration whose Validate method lives in another package is
\* the outcome of that method
Checked(valid) == [valid |-> valid]

IsValid(sub) == sub = Nil \/ sub.valid

(***************************************************************************)
(* validate: the first failing check decides; the configuration is         *)
(* normalised on the way.                                                  *)
(***************************************************************************)
Failed(c, msg) == [err |-> msg, c |-> c]

Passed(c) == [err |-> ErrNil, c |-> c]

validateServer(c) ==
  IF c.Server.ListenAddress = "" THEN Failed(c, "server.addr is required")
  ELSE IF c.Server.Net \notin {"unix", "tcp", ""}
    THEN Failed(c, "server.net must be unix or tcp")
  ELSE
    LET c1 == IF c.Server.Net = "" THEN [c EXCEPT !.Server.Net = "tcp"] ELSE c
    IN  IF c1.Server.PathPrefix # "" /\ ~HasSlashPrefix(c1.Server.PathPrefix)
          THEN Failed(c1, "server.path_prefix must be an absolute path")
        ELSE IF c1.Server.TLSMinVersion \in {"0x0304", "TLS13"} /\ c1.Server.TLSCipherSuites # Nil
          THEN Failed(c1, "TLS 1.3 ciphersuites are not configurable")
        ELSE IF c1.Token.Issuer = "" THEN Failed(c1, "token.issuer is required")
        ELSE IF c1.Token.Expiration <= 0 THEN Failed(c1, "expiration must be positive")
        ELSE Passed(c1)

validateAuthn(c) ==
  IF c.Users = Nil /\ c.ExtAuth = Nil /\ c.GoogleAuth = Nil /\ c.GitHubAuth = Nil
     /\ c.GitlabAuth = Nil /\ c.OIDCAuth = Nil /\ c.LDAPAuth = Nil /\ c.MongoAuth = Nil
     /\ c.XormAuthn = Nil /\ c.PluginAuthn = Nil
    THEN Failed(c, "no auth methods are configured")
  ELSE IF ~IsValid(c.MongoAuth) THEN Failed(c, "bad mongo_auth config")
  ELSE IF ~IsValid(c.XormAuthn) THEN Failed(c, "bad xorm_auth config")
  ELSE Passed(c)

\* client_secret_file, when given, replaces ClientSecret
readSecret(a) ==
  IF a.ClientSecretFile = "" THEN [err |-> ErrNil, a |-> a]
  ELSE LET f == ReadFile(a.ClientSecretFile)
       IN  IF f.err # ErrNil THEN [err |-> f.err, a |-> a]
           ELSE [err |-> ErrNil, a |-> [a EXCEPT !.ClientSecret = TrimSpace(f.contents)]]

validateGoogle(c) ==
  IF c.GoogleAuth = Nil THEN Passed(c)
  ELSE LET s == readSecret(c.GoogleAuth)
           gac == s.a
       IN  IF s.err # ErrNil THEN Failed(c, s.err)
           ELSE IF gac.ClientId = "" \/ gac.ClientSecret = "" \/ gac.TokenDB = ""
             THEN Failed([c EXCEPT !.GoogleAuth = gac],
                         "google_auth.{client_id,client_secret,token_db} are required.")
           ELSE Passed([c EXCEPT !.GoogleAuth =
                          IF gac.HTTPTimeout <= 0 THEN [gac EXCEPT !.HTTPTimeout = 10] ELSE gac])

\* variant: redis_token_db is looked at only when it is the only token store
validateOAuthStore_RedisLast(ac, name) ==
  LET s == readSecret(ac)
      a == s.a
  IN  IF s.err # ErrNil THEN [err |-> s.err, a |-> ac]
      ELSE IF a.ClientId = "" \/ a.ClientSecret = ""
              \/ (a.TokenDB = "" /\ (a.GCSTokenDB = Nil /\ a.RedisTokenDB = Nil))
        THEN [err |-> name \o ".{client_id,client_secret,token_db} are required", a |-> a]
      ELSE IF a.GCSTokenDB # Nil
              /\ (a.GCSTokenDB.Bucket = "" \/ a.GCSTokenDB.ClientSecretFile = "")
        THEN [err |-> name \o ".{client_id,client_secret,gcs_token_db{bucket,client_secret_file}} are required",
              a |-> a]
      ELSE IF a.TokenDB = "" /\ a.GCSTokenDB = Nil
              /\ a.RedisTokenDB.ClientOptions = Nil /\ a.RedisTokenDB.ClusterOptions = Nil
        THEN [err |-> name \o ".{client_id,client_secret,redis_token_db.{redis_options,redis_cluster_options}} are required",
              a |-> a]
      ELSE [err |-> ErrNil,
            a |-> [a EXCEPT !.HTTPTimeout = IF @ <= 0 THEN 10 ELSE @,
                            !.RevalidateAfter = IF @ = 0 THEN 3600 ELSE @]]

\* github_auth and gitlab_auth are validated alike; name prefixes the messages
validateOAuthStore(ac, name) ==
  LET s == readSecret(ac)
      a == s.a
  IN  IF s.err # ErrNil THEN [err |-> s.err, a |-> ac]
      ELSE IF a.ClientId = "" \/ a.ClientSecret = ""
              \/ (a.TokenDB = "" /\ (a.GCSTokenDB = Nil /\ a.RedisTokenDB = Nil))
        THEN [err |-> name \o ".{client_id,client_secret,token_db} are required", a |-> a]
      ELSE IF a.ClientId = "" \/ a.ClientSecret = ""
              \/ (a.GCSTokenDB # Nil
                  /\ (a.GCSTokenDB.Bucket = "" \/ a.GCSTokenDB.ClientSecretFile = ""))
        THEN [err |-> name \o ".{client_id,client_secret,gcs_token_db{bucket,client_secret_file}} are required",
              a |-> a]
      ELSE IF a.ClientId = "" \/ a.ClientSecret = ""
              \/ (a.RedisTokenDB # Nil /\ a.RedisTokenDB.ClientOptions = Nil
                  /\ a.RedisTokenDB.ClusterOptions = Nil)
        THEN [err |-> name \o ".{client_id,client_secret,redis_token_db.{redis_options,redis_cluster_options}} are required",
              a |-> a]
      ELSE LET a1 == IF a.HTTPTimeout <= 0 THEN [a EXCEPT !.HTTPTimeout = 10] ELSE a
               a2 == IF a1.RevalidateAfter = 0 THEN [a1 EXCEPT !.RevalidateAfter = 3600] ELSE a1
           IN  [err |-> ErrNil, a |-> a2]

validateGitHub(c) ==
  IF c.GitHubAuth = Nil THEN Passed(c)
  ELSE LET r == validateOAuthStore(c.GitHubAuth, "github_auth")
       IN  [err |-> r.err, c |-> [c EXCEPT !.GitHubAuth = r.a]]

validateOIDC(c) ==
  IF c.OIDCAuth = Nil THEN Passed(c)
  ELSE LET s == readSecret(c.OIDCAuth)
           oidc == s.a
       IN  IF s.err # ErrNil THEN Failed(c, s.err)
           ELSE IF oidc.ClientId = "" \/ oidc.ClientSecret = "" \/ oidc.TokenDB = ""
                   \/ oidc.Issuer = "" \/ oidc.RedirectURL = ""
             THEN Failed([c EXCEPT !.OIDCAuth = oidc],
                         "oidc_auth.{issuer,redirect_url,client_id,client_secret,token_db} are required")
           ELSE LET o1 == IF oidc.HTTPTimeout <= 0 THEN [oidc EXCEPT !.HTTPTimeout = 10] ELSE oidc
                    o2 == IF o1.UserClaim = "" THEN [o1 EXCEPT !.UserClaim = "email"] ELSE o1
                    o3 == IF o2.Scopes = Nil
                          THEN [o2 EXCEPT !.Scopes = [list |-> <<"openid", "email">>]] ELSE o2
                IN  Passed([c EXCEPT !.OIDCAuth = o3])

validateGitlab(c) ==
  IF c.GitlabAuth = Nil THEN Passed(c)
  ELSE LET r == validateOAuthStore(c.GitlabAuth, "gitlab_auth")
       IN  [err |-> r.err, c |-> [c EXCEPT !.GitlabAuth = r.a]]

validateAuthz(c) ==
  IF ~IsValid(c.ExtAuth) THEN Failed(c, "bad ext_auth config")
  ELSE IF c.ACL = Nil /\ c.ACLXorm = Nil /\ c.ACLMongo = Nil /\ c.ExtAuthz = Nil
          /\ c.PluginAuthz = Nil
    THEN Failed(c, "ACL is empty, this is probably a mistake")
  ELSE IF ~IsValid(c.ACL) THEN Failed(c, "invalid ACL")
  ELSE IF ~IsValid(c.ACLMongo) THEN Failed(c, "bad acl_mongo config")
  ELSE IF ~IsValid(c.ACLXorm) THEN Failed(c, "bad acl_xorm config")
  ELSE IF ~IsValid(c.ExtAuthz) THEN Failed(c, "bad ext_authz config")
  ELSE IF ~IsValid(c.PluginAuthn) THEN Failed(c, "bad plugin_authn config")
  ELSE IF ~IsValid(c.PluginAuthz) THEN Failed(c, "bad plugin_authz config")
  ELSE Passed(c)

\* each group of checks runs on the configuration the last one left, unless
\* that one failed
validate(c) ==
  LET AndThen(r, check(_)) ==
        CHOOSE out \in {IF v.err # ErrNil THEN v ELSE check(v.c) : v \in {r}} : TRUE
  IN  AndThen(AndThen(AndThen(AndThen(AndThen(AndThen(
        validateServer(c), validateAuthn), validateGoogle), validateGitHub),
        validateOIDC), validateGitlab), validateAuthz)

(***************************************************************************)
(* LoadConfig, from the unmarshalled Config on: validation, then the keys. *)
(***************************************************************************)
LoadFailed(msg) ==
  [err |-> msg, invalid |-> FALSE, c |-> Nil, serverKeys |-> NoKeys, tokenKeys |-> NoKeys]

\* variant: the server keys win over a configured token keypair
tokenKeysFor_ServerFirst(serverConfigured, tokenConfigured, serverKeys, loaded) ==
  IF serverConfigured THEN serverKeys
  ELSE IF tokenConfigured THEN loaded
  ELSE NoKeys

\* the keys the token minter signs with
tokenKeysFor(serverConfigured, tokenConfigured, serverKeys, loaded) ==
  IF tokenConfigured THEN loaded
  ELSE IF serverConfigured THEN serverKeys
  ELSE NoKeys

loadKeys(v) ==
  LET c == v.c
      serverGiven == c.Server.CertFile # "" \/ c.Server.KeyFile # ""
      tokenGiven == c.Token.CertFile # "" \/ c.Token.KeyFile # ""
      sk == loadCertAndKey(c.Server.CertFile, c.Server.KeyFile)
      tk == loadCertAndKey(c.Token.CertFile, c.Token.KeyFile)
      serverKeys == IF serverGiven THEN [publicKey |-> sk.publicKey, privateKey |-> sk.privateKey]
                    ELSE NoKeys
      tokenKeys == tokenKeysFor(serverGiven, tokenGiven, serverKeys,
                                [publicKey |-> tk.publicKey, privateKey |-> tk.privateKey])
  IN  IF v.err # ErrNil
        THEN [LoadFailed("invalid config: " \o v.err) EXCEPT !.invalid = TRUE]
      ELSE IF serverGiven /\ (c.Server.CertFile = "" \/ c.Server.KeyFile = "")
        THEN LoadFailed("failed to load server cert and key: both were not provided")
      ELSE IF serverGiven /\ sk.err # ErrNil
        THEN LoadFailed("failed to load server cert and key")
      ELSE IF tokenGiven /\ (c.Token.CertFile = "" \/ c.Token.KeyFile = "")
        THEN LoadFailed("failed to load token cert and key: both were not provided")
      ELSE IF tokenGiven /\ tk.err # ErrNil
        THEN LoadFailed("failed to load token cert and key")
      ELSE IF ~serverGiven /\ ~tokenGiven
        THEN LoadFailed("failed to load token cert and key: none provided")
      ELSE IF ~serverGiven /\ c.Server.LetsEncrypt.Email # ""
              /\ c.Server.LetsEncrypt.CacheDir = ""
        THEN LoadFailed("server.letsencrypt.cache_dir is required")
      ELSE IF ~serverGiven /\ c.Server.LetsEncrypt.Email # ""
              /\ ~IsDir(c.Server.LetsEncrypt.CacheDir)
        THEN LoadFailed("server.letsencrypt.cache_dir does not exist or is not a directory")
      ELSE [err |-> ErrNil, invalid |-> FALSE, c |-> c,
            serverKeys |-> serverKeys, tokenKeys |-> tokenKeys]

LoadConfig(c0) == CHOOSE out \in {loadKeys(v) : v \in {validate(c0)}} : TRUE


(***************************************************************************)
(* The configurations LoadConfig is given.                                 *)
(***************************************************************************)
BaseServer ==
  [ListenAddress |-> ":5001", Net |-> "", PathPrefix |-> "", TLSMinVersion |-> "",
   TLSCipherSuites |-> Nil, CertFile |-> "", KeyFile |-> "",
   LetsEncrypt |-> [Email |-> "", CacheDir |-> ""]]

BaseToken == [Issuer |-> "Acme auth server", Expiration |-> 900, CertFile |-> "", KeyFile |-> ""]

GitHubFile ==
  [ClientId |-> "id", ClientSecret |-> "sec", ClientSecretFile |-> "", TokenDB |-> "/data/tokens.ldb",
   GCSTokenDB |-> Nil, RedisTokenDB |-> Nil, HTTPTimeout |-> 0, RevalidateAfter |-> 0]

BaseConfig ==
  [Server |-> BaseServer, Token |-> BaseToken,
   Users |-> Checked(TRUE), GoogleAuth |-> Nil, GitHubAuth |-> Nil, OIDCAuth |-> Nil,
   GitlabAuth |-> Nil, LDAPAuth |-> Nil, MongoAuth |-> Nil, XormAuthn |-> Nil,
   ExtAuth |-> Nil, PluginAuthn |-> Nil,
   ACL |-> Nil, ACLMongo |-> Nil, ACLXorm |-> Nil, ExtAuthz |-> Nil,
   PluginAuthz |-> Nil, CasbinAuthz |-> Nil]

\* github_auth with every combination of its token stores: the token_db
\* path, gcs_token_db (complete or lacking its bucket) and redis_token_db
\* (with neither, the single-node or the cluster options)
GCSStores ==
  {Nil, [Bucket |-> "tokens", ClientSecretFile |-> "gcs.json"],
        [Bucket |-> "", ClientSecretFile |-> "gcs.json"]}

RedisStores ==
  {Nil, [ClientOptions |-> Nil, ClusterOptions |-> Nil],
        [ClientOptions |-> [Addr |-> "redis:6379"], ClusterOptions |-> Nil],
        [ClientOptions |-> Nil, ClusterOptions |-> [Addrs |-> <<"redis:6379">>]]}

GitHubStoreVariants ==
  { [BaseConfig EXCEPT !.GitHubAuth =
       [GitHubFile EXCEPT !.TokenDB = path, !.GCSTokenDB = gcs, !.RedisTokenDB = redis]] :
    path \in {"", "/data/tokens.ldb"}, gcs \in GCSStores, redis \in RedisStores }

\* the part of a configuration that is neither authorizers nor keys
BasicVariants ==
  GitHubStoreVariants \cup
  { BaseConfig,
    [BaseConfig EXCEPT !.Server.ListenAddress = ""],
    [BaseConfig EXCEPT !.Server.Net = "udp"],
    [BaseConfig EXCEPT !.Server.Net = "unix", !.Server.PathPrefix = "/auth"],
    [BaseConfig EXCEPT !.Server.PathPrefix = "auth"],
    [BaseConfig EXCEPT !.Server.TLSMinVersion = "TLS13",
                       !.Server.TLSCipherSuites = [list |-> <<"TLS_AES_128_GCM_SHA256">>]],
    [BaseConfig EXCEPT !.Token.Issuer = ""],
    [BaseConfig EXCEPT !.Token.Expiration = 0],
    [BaseConfig EXCEPT !.Users = Nil],
    [BaseConfig EXCEPT !.Users = Nil, !.LDAPAuth = Checked(TRUE)],
    [BaseConfig EXCEPT !.MongoAuth = Checked(FALSE)],
    [BaseConfig EXCEPT !.ExtAuth = Checked(FALSE)],
    [BaseConfig EXCEPT !.PluginAuthn = Checked(FALSE)],
    [BaseConfig EXCEPT !.Users = Nil, !.GitHubAuth = GitHubFile],
    [BaseConfig EXCEPT !.GitHubAuth = [GitHubFile EXCEPT !.ClientSecret = "",
                                                         !.ClientSecretFile = "secret.txt"]],
    [BaseConfig EXCEPT !.GitHubAuth = [GitHubFile EXCEPT !.ClientId = ""]] }

Authorizers == {"ACL", "ACLMongo", "ACLXorm", "ExtAuthz", "PluginAuthz", "CasbinAuthz"}

\* every subset of the six authorizers configured validly, and each one alone
\* configured invalidly
AuthzChoices ==
  {[a \in Authorizers |-> IF a \in on THEN Checked(TRUE) ELSE Nil] : on \in SUBSET Authorizers}
  \cup
  {[a \in Authorizers |-> IF a = bad THEN Checked(FALSE) ELSE Nil] :
      bad \in Authorizers \ {"CasbinAuthz"}}

\* no authorizer, and acl alone
PlainAuthzChoices ==
  {az \in AuthzChoices :
     \A a \in Authorizers : az[a] # Nil => (a = "ACL" /\ az[a].valid)}

KeyFileChoices ==
  [serverCert : {"", "server.crt"}, serverKey : {"", "server.key", "token.key"},
   tokenCert : {"", "token.crt"}, tokenKey : {"", "token.key", "server.key"}]

LetsEncryptChoices ==
  { [Email |-> "", CacheDir |-> ""], [Email |-> "ops@acme.io", CacheDir |-> ""],
    [Email |-> "ops@acme.io", CacheDir |-> "/cache"],
    [Email |-> "ops@acme.io", CacheDir |-> "/missing"] }

MakeConfig(basic, az, keys, le) ==
  [basic EXCEPT !.ACL = az["ACL"], !.ACLMongo = az["ACLMongo"], !.ACLXorm = az["ACLXorm"],
                !.ExtAuthz = az["ExtAuthz"], !.PluginAuthz = az["PluginAuthz"],
                !.CasbinAuthz = az["CasbinAuthz"],
                !.Server.CertFile = keys.serverCert, !.Server.KeyFile = keys.serverKey,
                !.Token.CertFile = keys.tokenCert, !.Token.KeyFile = keys.tokenKey,
                !.Server.LetsEncrypt = le]

(***************************************************************************)
(* The GitHub authenticator as a state machine.  The server handles its    *)
(* requests concurrently: each worker handles one request at a time, an    *)
(* Authenticate call or a browser flow, and the steps of the requests in   *)
(* flight interleave in any order.  calls is the bag of what the handlers  *)
(* of the requests in flight hold.                                         *)
(***************************************************************************)
Workers == {"w1", "w2"}

NoneIssued == [user |-> "", dp |-> 0, token |-> ""]

InitOther ==
  /\ users = [u \in StaticNames |-> Nil]
  /\ sres = SIdle
  /\ cfg = BaseConfig
  /\ cres = Nil
  /\ calls = EmptyBag
  /\ issued = NoneIssued

Init ==
  /\ config \in [Organization : Organizations, RevalidateAfter : 1..MaxRevalidateAfter]
  /\ db = [u \in Logins |-> Nil]
  /\ now = 0
  /\ last = Idle
  /\ InitOther

\* time passes
Tick ==
  /\ last = Idle
  /\ now < MaxTime
  /\ now' = now + 1
  /\ UNCHANGED <<config, db, last, users, sres, cfg, cres, calls, issued>>

\* last holds the record of a request for the one step after its return
Forget ==
  /\ last # Idle
  /\ last' = Idle
  /\ UNCHANGED <<config, db, now, users, sres, cfg, cres, calls, issued>>

\* a worker is free to take a new request
WorkerFree == BagCardinality(calls) < Cardinality(Workers)

\* the handler that holds c takes the step r; a new request holds NoCall
Step(c, r) ==
  /\ last = Idle
  /\ db' = r.db
  /\ calls' = (calls (-) SetToBag({c})) (+)
              (IF r.call = NoCall THEN EmptyBag ELSE SetToBag({r.call}))
  /\ last' = r.last
  /\ UNCHANGED <<config, now, users, sres, cfg, cres>>

\* a token request whose credentials reach GitHubAuth.Authenticate
AuthValidate ==
  /\ WorkerFree
  /\ \E user \in Users, password \in Passwords, fails \in BOOLEAN :
       Step(NoCall, Authenticate_ValidateToken(db, now, user, password, fails))
  /\ UNCHANGED issued

AuthGetValue ==
  /\ \E c \in BagToSet(calls), fails \in BOOLEAN :
       /\ c.pc = "get"
       /\ Step(c, validateServerToken_GetValue(db, c, fails))
  /\ UNCHANGED issued

AuthProvider ==
  /\ \E c \in BagToSet(calls), p \in ProviderInputs(config.Organization, Logins) :
       /\ c.pc = "provider"
       /\ Step(c, validateServerToken_validateAccessToken(config, db, now, c, p))
  /\ UNCHANGED issued

AuthStore ==
  /\ \E c \in BagToSet(calls), fails \in BOOLEAN :
       /\ c.pc = "renew"
       /\ Step(c, validateServerToken_StoreToken(db, c, fails))
  /\ UNCHANGED issued

AuthReturn ==
  /\ \E c \in BagToSet(calls), fails \in BOOLEAN :
       /\ c.pc = "final"
       /\ Step(c, Authenticate_GetValue(db, c, fails))
  /\ UNCHANGED issued

\* GET /github_auth?code=...
FlowExchange ==
  /\ WorkerFree
  /\ \E exch \in ExchangeResponses :
     \E p \in (IF exch.kind = "ok" THEN ProviderInputs(config.Organization, BrowserLogins)
               ELSE {NoProvider}) :
       LET valid == exch.kind = "ok" /\
                    validateAccessToken(config.Organization, p.userResp, p.memberResp).err
                      = ErrNil
       IN  \E pages \in (IF valid /\ config.Organization # "" THEN TeamPageChains
                         ELSE {NoPages}) :
             Step(NoCall, doGitHubAuthCreateToken_Exchange(config, db, now, exch, p, pages))
  /\ UNCHANGED issued

\* issued remembers the login, the password and the token of the flow whose
\* StoreToken was the last to succeed
FlowStore ==
  \E c \in BagToSet(calls), dp \in 1..MaxDP, fails \in BOOLEAN :
    /\ c.pc = "store"
    /\ LET r == doGitHubAuthCreateToken_StoreToken(db, c, dp, fails)
       IN  /\ Step(c, r)
           /\ issued' = IF r.call.pc = "page"
                        THEN [user |-> c.req.user, dp |-> r.call.dp, token |-> c.req.token]
                        ELSE issued

FlowPage ==
  /\ \E c \in BagToSet(calls) :
       /\ c.pc = "page"
       /\ Step(c, doGitHubAuthResultPage(db, c))
  /\ UNCHANGED issued

Next ==
  \/ Tick \/ Forget
  \/ AuthValidate \/ AuthGetValue \/ AuthProvider \/ AuthStore \/ AuthReturn
  \/ FlowExchange \/ FlowStore \/ FlowPage

Spec == Init /\ [][Next]_vars

(***************************************************************************)
(* The static users authenticator as a state machine.                      *)
(***************************************************************************)
InitStatic ==
  /\ config = [Organization |-> "", RevalidateAfter |-> 1]
  /\ db = [u \in Logins |-> Nil]
  /\ now = 0
  /\ last = Idle
  /\ users \in [StaticNames -> Requirements \cup {Nil}]
  /\ sres = SIdle
  /\ cfg = BaseConfig
  /\ cres = Nil
  /\ calls = EmptyBag
  /\ issued = NoneIssued

StaticAuthenticateRequest ==
  \E user \in StaticCallers, password \in StaticPasswords :
    /\ sres' = staticAuthenticate(users, user, password)
    /\ UNCHANGED <<config, db, now, last, users, cfg, cres, calls, issued>>

NextStatic == StaticAuthenticateRequest

SpecStatic == InitStatic /\ [][NextStatic]_vars

(***************************************************************************)
(* Start-up: LoadConfig runs once on the configuration it is given.        *)
(***************************************************************************)
InitConfig ==
  /\ config = [Organization |-> "", RevalidateAfter |-> 1]
  /\ db = [u \in Logins |-> Nil]
  /\ now = 0
  /\ last = Idle
  /\ users = [u \in StaticNames |-> Nil]
  /\ sres = SIdle
  /\ \E basic \in BasicVariants, az \in AuthzChoices, keys \in KeyFileChoices,
        le \in LetsEncryptChoices :
       /\ basic = BaseConfig \/ (az \in PlainAuthzChoices /\ le.Email = "")
       /\ cfg = MakeConfig(basic, az, keys, le)
  /\ cres = Nil
  /\ calls = EmptyBag
  /\ issued = NoneIssued

LoadConfigStep ==
  /\ cres = Nil
  /\ cres' = LoadConfig(cfg)
  /\ UNCHANGED <<config, db, now, last, users, sres, cfg, calls, issued>>

NextConfig == LoadConfigStep

SpecConfig == InitConfig /\ [][NextConfig]_vars

(***************************************************************************)
(* fetchTeams applied to the team listings.                                *)
(***************************************************************************)
InitTeams ==
  /\ config \in [Organization : Organizations \cup {"other"}, RevalidateAfter : {1}]
  /\ db = [u \in Logins |-> Nil]
  /\ now = 0
  /\ last = Idle
  /\ InitOther

FetchTeamsCall ==
  /\ last.op = "idle"
  /\ \E n \in 1..MaxPages : \E pages \in PageChains(n) :
       LET r == fetchTeams(config.Organization, pages)
       IN  last' = [Idle EXCEPT !.op = "fetchTeams", !.pages = pages,
                                !.teams = r.teams, !.teamsErr = r.err,
                                !.requests = r.requests,
                                !.asked = IF r.asked THEN {"teams"} ELSE {}]
  /\ UNCHANGED <<config, db, now, users, sres, cfg, cres, calls, issued>>

NextTeams == FetchTeamsCall

SpecTeams == InitTeams /\ [][NextTeams]_vars

(***************************************************************************)
(* Properties.  The step in which a request returns leaves the request,    *)
(* its inputs and its outcome in last'; db is the TokenDB before the step  *)
(* and db' the TokenDB after it.  A step of a request that has not         *)
(* returned is seen in calls: the handler left what it held and entered    *)
(* what it holds now.                                                      *)
(***************************************************************************)
\* a handler holds c after the step and did not before
Entered(c) == CopiesIn(c, calls') > CopiesIn(c, calls)

\* a handler held c before the step and does not after
Left(c) == CopiesIn(c, calls) > CopiesIn(c, calls')

Revalidating(l) == l.op = "Authenticate" /\ l.verr = ExpiredToken

\* the membership check of the request passes (or none is configured)
OrgCheckPasses(l) ==
  config.Organization = "" \/
  (~l.prov.memberResp.neterr /\ l.prov.memberResp.status = StatusNoContent)

\* GET /user answered with the login of the authenticating user
ProviderConfirms(l) == l.prov.userResp = l.user /\ OrgCheckPasses(l)

\* no TokenDB call of the request failed
DBCallsSucceeded(l) == l.dbFailed = "none"

\* C1: revalidating an expired token with the right DP, the provider
\* confirming the login (and the organization) and the TokenDB serving the
\* calls of the request (GetValue, the StoreToken write-back, the final
\* GetValue), Authenticate returns (true, labels, nil), the labels being those
\* stored for the user before and after the returning step.
C1_RevalidationSucceeds ==
  [][(Revalidating(last') /\ ProviderConfirms(last') /\ DBCallsSucceeded(last'))
       => (/\ last'.ok
           /\ last'.err = ErrNil
           /\ last'.labels = db[last'.user].Labels
           /\ last'.labels = db'[last'.user].Labels)]_vars

C1_Witness ==
  /\ Revalidating(last) /\ ProviderConfirms(last) /\ last.ok
  /\ config.Organization # "" /\ last.labels.teams # {}

\* C2 as stated: a successful revalidation writes the entry back with
\* ValidUntil = the ValidUntil stored before + RevalidateAfter, the rest as read.
C2_AsStated ==
  [][/\ \A c \in BagToSet(calls), c2 \in BagToSet(calls') :
          (c.pc = "provider" /\ Left(c) /\ Entered(c2))
            => c2.v = [c.v EXCEPT !.ValidUntil = c.v.ValidUntil + config.RevalidateAfter]
     /\ \A c \in BagToSet(calls) :
          (c.pc = "renew" /\ Left(c) /\ last' = Idle) => db'[c.req.user] = c.v]_vars

\* C2 amended: a successful revalidation writes the entry back with
\* ValidUntil = the time at which the provider confirmed the token +
\* RevalidateAfter, and with AccessToken, Labels and the DP hash as they were
\* read; no other entry is written.
C2_ValidUntilFromNow ==
  [][/\ \A c \in BagToSet(calls), c2 \in BagToSet(calls') :
          (c.pc = "provider" /\ Left(c) /\ Entered(c2))
            => c2.v = [c.v EXCEPT !.ValidUntil = now + config.RevalidateAfter]
     /\ \A c \in BagToSet(calls) :
          (c.pc = "renew" /\ Left(c) /\ last' = Idle)
            => /\ db'[c.req.user] = c.v
               /\ \A u \in Logins \ {c.req.user} : db'[u] = db[u]]_vars

C2_Witness ==
  /\ Revalidating(last) /\ last.store = "ok" /\ last.ok
  /\ db[last.user].ValidUntil = now + config.RevalidateAfter

\* C3: when ValidateToken returns nil and GetValue yields the user's value,
\* Authenticate returns (true, the stored labels, nil).
C3_ValidTokenAuthenticates ==
  [][(last'.op = "Authenticate" /\ last'.verr = ErrNil /\ DBCallsSucceeded(last'))
       => (/\ db[last'.user] # Nil
           /\ last'.ok
           /\ last'.labels = db[last'.user].Labels
           /\ last'.err = ErrNil)]_vars

C3_Witness ==
  /\ last.op = "Authenticate" /\ last.verr = ErrNil /\ last.ok
  /\ last.labels.teams # {}

\* C4: NoMatch and WrongPass from ValidateToken are returned unchanged as
\* (false, nil, err), and the TokenDB is not modified.
C4_NoMatchWrongPassPassThrough ==
  [][(last'.op = "Authenticate" /\ last'.verr \in {NoMatch, WrongPass})
       => (/\ ~last'.ok
           /\ last'.labels = Nil
           /\ last'.err = last'.verr
           /\ last'.store = "none"
           /\ db' = db)]_vars

C4_Witness ==
  /\ last.op = "Authenticate" /\ last.verr = WrongPass /\ last.err = WrongPass
  /\ db[last.user] # Nil /\ now > db[last.user].ValidUntil

\* C5: a revalidation the provider does not confirm (network error, unparsable
\* answer, organization check failed, another user) returns ok = false with an
\* error and leaves the TokenDB as it was: nothing is stored or deleted.
C5_FailedRevalidationKeepsEntry ==
  [][(Revalidating(last') /\ "user" \in last'.asked /\ ~ProviderConfirms(last'))
       => (/\ ~last'.ok
           /\ last'.err # ErrNil
           /\ last'.store = "none"
           /\ db' = db)]_vars

C5_Witness ==
  /\ Revalidating(last) /\ last.prov.userResp \in Logins \ {last.user}
  /\ ~last.ok /\ db[last.user] # Nil

\* C6: every user with a TokenDB entry has exactly one password that
\* ValidateToken accepts as the DP (it answers nil or ExpiredToken).
DPValidates(u, p) == ValidateToken(db, u, p, now, FALSE) \in {ErrNil, ExpiredToken}

C6_ExactlyOneDP ==
  \A u \in Logins :
    db[u] # Nil => Cardinality({p \in Passwords : DPValidates(u, p)}) = 1

C6_Witness ==
  /\ Revalidating(last) /\ last.store = "ok"
  /\ \E p \in Passwords : p # 1 /\ DPValidates(last.user, p)

\* C7: a browser flow whose code exchange and token validation succeed calls
\* StoreToken(login, {AccessToken = the exchanged token, ValidUntil = now +
\* RevalidateAfter, Labels}, generateDP = true) for the login the provider
\* returned; when the call succeeds the entry is stored with the hash of the
\* DP it returned, and that DP is the one shown to the user.
FlowValidated(l) ==
  l.op = "CreateToken" /\ l.token # "" /\ l.prov.userResp \in Logins /\ OrgCheckPasses(l)

C7_BrowserFlowStores ==
  [][/\ \A c2 \in BagToSet(calls') :
          (c2.pc = "store" /\ Entered(c2))
            => /\ FlowValidated(c2.req)
               /\ c2.req.user = c2.req.prov.userResp
               /\ c2.req.token \in AccessTokens
               /\ c2.v.AccessToken = c2.req.token
               /\ c2.v.ValidUntil = now + config.RevalidateAfter
               /\ c2.v.Labels = [teams |-> c2.req.teams]
     /\ FlowValidated(last') => last'.store # "none"
     /\ \A c \in BagToSet(calls) :
          (c.pc = "store" /\ Left(c))
            => IF last' = Idle
               THEN \E c2 \in BagToSet(calls') :
                      /\ Entered(c2) /\ c2.pc = "page"
                      /\ c2.dp \in 1..MaxDP
                      /\ c2.req.genDP /\ c2.req.store = "ok"
                      /\ c2.req.argUser = c.req.user /\ c2.req.arg = c.v
                      /\ db'[c.req.user] =
                           [c.v EXCEPT !.DockerPassword = GenerateFromPassword(c2.dp)]
                      /\ ValidateToken(db', c.req.user, c2.dp, now', FALSE)
                           \in {ErrNil, ExpiredToken}
               ELSE /\ last'.store = "failed" /\ last'.genDP
                    /\ last'.argUser = c.req.user /\ last'.arg = c.v
                    /\ last'.shownDP = 0 /\ last'.shownUser = ""
                    /\ db' = db
     /\ \A c \in BagToSet(calls) :
          (c.pc = "page" /\ Left(c))
            => /\ last'.ok /\ last'.store = "ok"
               /\ last'.shownUser = c.req.user
               /\ last'.shownDP = c.dp]_vars

C7_Witness ==
  /\ FlowValidated(last) /\ last.store = "ok" /\ last.shownDP = MaxDP
  /\ last.teams # {} /\ now > 0

\* C8: staticUsersAuth.Authenticate returns (false, nil, NoMatch) for a user the
\* map does not configure, (false, nil, nil) for a configured user whose hash
\* does not match the password, and (true, the user's labels, nil) on a match.
StaticEntry(u) == IF u \in DOMAIN users THEN users[u] ELSE Nil

C8_StaticUsers ==
  sres.called =>
    LET reqs == StaticEntry(sres.user)
    IN  /\ reqs = Nil => (~sres.ok /\ sres.labels = Nil /\ sres.err = NoMatch)
        /\ (reqs # Nil /\ reqs.Password # Nil) =>
             IF CompareHashAndPassword(reqs.Password, sres.password)
             THEN sres.ok /\ sres.labels = reqs.Labels /\ sres.err = ErrNil
             ELSE ~sres.ok /\ sres.labels = Nil /\ sres.err = ErrNil

C8_Witness ==
  /\ sres.called /\ StaticEntry(sres.user) # Nil
  /\ StaticEntry(sres.user).Password = GenerateFromPassword("x")
  /\ sres.password = "y" /\ ~sres.ok /\ sres.err = ErrNil

\* C9: with a server keypair and no token keypair the token keys are the server
\* keys; a configured token keypair gives the token keys whatever the server
\* keypair is; with neither, and with a keypair of which only the certificate
\* or only the key is given, LoadConfig fails.
PairGiven(s) == s.CertFile # "" /\ s.KeyFile # ""

NoneGiven(s) == s.CertFile = "" /\ s.KeyFile = ""

HalfGiven(s) == ~PairGiven(s) /\ ~NoneGiven(s)

KeysOf(s) ==
  LET k == loadCertAndKey(s.CertFile, s.KeyFile)
  IN  [publicKey |-> k.publicKey, privateKey |-> k.privateKey]

Loads(s) == loadCertAndKey(s.CertFile, s.KeyFile).err = ErrNil

C9_TokenKeys ==
  cres # Nil =>
    /\ (cres.err = ErrNil /\ PairGiven(cfg.Server) /\ NoneGiven(cfg.Token))
         => (cres.tokenKeys = cres.serverKeys /\ cres.tokenKeys = KeysOf(cfg.Server))
    /\ (~cres.invalid /\ PairGiven(cfg.Server) /\ Loads(cfg.Server) /\ NoneGiven(cfg.Token))
         => cres.err = ErrNil
    /\ (cres.err = ErrNil /\ PairGiven(cfg.Token))
         => (cres.tokenKeys = KeysOf(cfg.Token) /\ Loads(cfg.Token))
    /\ (NoneGiven(cfg.Server) /\ NoneGiven(cfg.Token)) => cres.err # ErrNil
    /\ (HalfGiven(cfg.Server) \/ HalfGiven(cfg.Token)) => cres.err # ErrNil

C9_Witness ==
  /\ cres # Nil /\ cres.err = ErrNil
  /\ PairGiven(cfg.Server) /\ PairGiven(cfg.Token)
  /\ cres.tokenKeys = KeysOf(cfg.Token) /\ cres.tokenKeys # cres.serverKeys

\* C10 as stated: a configuration that is valid apart from its authorizers is
\* accepted by validation when at least one of acl, acl_mongo, acl_xorm,
\* ext_authz, plugin_authz, casbin_authz is configured (validly), and rejected
\* when none is.
AuthorizersOf(c) ==
  {c.ACL, c.ACLMongo, c.ACLXorm, c.ExtAuthz, c.PluginAuthz, c.CasbinAuthz}

\* validation passes once a valid acl is put in the place of the authorizers
ValidButForAuthorizers(c) ==
  validate([c EXCEPT !.ACL = Checked(TRUE), !.ACLMongo = Nil, !.ACLXorm = Nil,
                     !.ExtAuthz = Nil, !.PluginAuthz = Nil, !.CasbinAuthz = Nil]).err = ErrNil

C10_AnyAuthorizerSuffices ==
  (cres # Nil /\ ValidButForAuthorizers(cfg) /\ \A a \in AuthorizersOf(cfg) : IsValid(a))
    => (~cres.invalid <=> AuthorizersOf(cfg) # {Nil})

\* C11: with an organization configured, fetchTeams returns exactly the set of
\* the slugs of the teams, over all pages fetched, whose organization is the
\* configured one, together with the slugs of the parents of those teams;
\* slugs of teams of other organizations and of their parents are not included.
TeamsFetched(l) ==
  UNION { {l.pages[l.requests[k]].teams[j] : j \in DOMAIN l.pages[l.requests[k]].teams} :
          k \in DOMAIN l.requests }

OwnTeams(l) == {t \in TeamsFetched(l) : t.Organization = config.Organization}

C11_OrganizationTeams ==
  (last.op = "fetchTeams" /\ config.Organization # "" /\ last.teamsErr = ErrNil)
    => /\ last.teams = {t.Slug : t \in OwnTeams(last)} \cup
                       {t.Parent.Slug : t \in {m \in OwnTeams(last) : m.Parent # Nil}}
       /\ \A t \in TeamsFetched(last) \ OwnTeams(last) :
            /\ t.Slug \in last.teams
                 => \E m \in OwnTeams(last) :
                      t.Slug = m.Slug \/ (m.Parent # Nil /\ t.Slug = m.Parent.Slug)
            /\ (t.Parent # Nil /\ t.Parent.Slug \in last.teams)
                 => \E m \in OwnTeams(last) :
                      t.Parent.Slug = m.Slug \/
                      (m.Parent # Nil /\ t.Parent.Slug = m.Parent.Slug)

C11_Witness ==
  /\ last.op = "fetchTeams" /\ config.Organization = "acme" /\ last.teamsErr = ErrNil
  /\ Len(last.requests) = MaxPages
  /\ last.teams = {"dev", "ops"}
  /\ \E t \in TeamsFetched(last) : t.Organization = "other" /\ t.Parent # Nil

\* C12: validation fails whenever github_auth has a redis_token_db with neither
\* redis_options nor redis_cluster_options, also when the token_db path or a
\* complete gcs_token_db is configured beside it.
RedisIncomplete(a) ==
  /\ a # Nil /\ a.RedisTokenDB # Nil
  /\ a.RedisTokenDB.ClientOptions = Nil /\ a.RedisTokenDB.ClusterOptions = Nil

GCSComplete(a) ==
  a.GCSTokenDB # Nil /\ a.GCSTokenDB.Bucket # "" /\ a.GCSTokenDB.ClientSecretFile # ""

C12_IncompleteRedisRejected ==
  (cres # Nil /\ RedisIncomplete(cfg.GitHubAuth))
    => (cres.invalid /\ cres.err # ErrNil /\ cres.c = Nil)

C12_Witness ==
  /\ cres # Nil /\ RedisIncomplete(cfg.GitHubAuth)
  /\ cfg.GitHubAuth.TokenDB # "" /\ GCSComplete(cfg.GitHubAuth)
  /\ cfg.ACL # Nil /\ PairGiven(cfg.Server)
  /\ cres.err = "invalid config: github_auth.{client_id,client_secret,redis_token_db.{redis_options,redis_cluster_options}} are required"

\* C13: fetchTeams requests the pages of a listing once each, in the order of
\* their rel="next" links, and stops at the first response without a Link
\* header or without a rel="next" entry in it; a failed request or an
\* unparsable body on any page ends it with an error and no teams.
HasNext(pg) ==
  pg.link.present /\ \E k \in DOMAIN pg.link.items : pg.link.items[k].rel = "next"

EndsListing(pg) == pg.status # "ok" \/ ~HasNext(pg)

\* the first page of the listing that ends it
LastRequested(pages) ==
  CHOOSE i \in DOMAIN pages :
    EndsListing(pages[i]) /\ \A j \in 1..(i - 1) : ~EndsListing(pages[j])

C13_PaginationStops ==
  last.op = "fetchTeams" =>
    IF config.Organization = "" THEN last.requests = <<>> /\ last.teamsErr = ErrNil
    ELSE LET k == LastRequested(last.pages)
         IN  /\ last.requests = [i \in 1..k |-> i]
             /\ Len(last.requests) <= Len(last.pages)
             /\ last.pages[k].status = "ok" => last.teamsErr = ErrNil
             /\ last.pages[k].status # "ok" => (last.teamsErr # ErrNil /\ last.teams = {})

C13_Witness ==
  /\ last.op = "fetchTeams" /\ config.Organization = "acme"
  /\ Len(last.pages) = MaxPages /\ last.requests = <<1, 2>>
  /\ last.pages[1].teams # <<>> /\ last.pages[2].status = "parseerr"
  /\ last.teamsErr # ErrNil /\ last.teams = {}

\* C14: Authenticate contacts the provider and writes the TokenDB only when
\* ValidateToken returned ExpiredToken; for every other outcome (nil, NoMatch,
\* WrongPass, another error) it makes no provider call and no StoreToken.
C14_OnlyExpiredRevalidates ==
  [][/\ (last'.op = "Authenticate" /\ last'.verr # ExpiredToken)
          => (/\ last'.asked = {}
              /\ last'.prov = NoProvider
              /\ last'.store = "none"
              /\ last'.arg = Nil
              /\ db' = db)
     /\ \A c2 \in BagToSet(calls') :
          (c2.req.op = "Authenticate" /\ c2.req.verr # ExpiredToken /\ Entered(c2))
            => (/\ c2.pc = "final"
                /\ c2.req.asked = {}
                /\ c2.req.prov = NoProvider
                /\ c2.req.store = "none"
                /\ db' = db)]_vars

C14_Witness ==
  /\ last.op = "Authenticate" /\ last.verr = ErrNil /\ last.ok
  /\ last.asked = {} /\ last.store = "none"
  /\ db[last.user].ValidUntil = now

\* C15 as stated: whenever no request is in flight, however the steps of the
\* browser flows and of the Authenticate calls that revalidate interleaved, the
\* stored entry carries the access token and the DP of the browser flow that
\* stored last: the DP issued to the user validates.
C15_LoginSurvivesRevalidation ==
  (calls = EmptyBag /\ issued.dp # 0)
    => (/\ db[issued.user] # Nil
        /\ db[issued.user].AccessToken = issued.token
        /\ DPValidates(issued.user, issued.dp))

\* C16: Authenticate(user, p) goes on past ValidateToken, to revalidate or to
\* return the labels, only when p is the DP stored for user at that moment,
\* whether the stored token has expired or not; with any other password it
\* returns at once with ok = false, asks the provider nothing and stores
\* nothing; and it returns ok = true only after ValidateToken accepted p.
StoredDP(d, u, p) == d[u] # Nil /\ CompareHashAndPassword(d[u].DockerPassword, p)

C16_OnlyStoredDPAuthenticates ==
  [][/\ \A c2 \in BagToSet(calls') :
          (/\ c2.req.op = "Authenticate" /\ Entered(c2)
           /\ c2.pc = "get" \/ (c2.pc = "final" /\ c2.req.verr = ErrNil))
            => StoredDP(db, c2.req.user, c2.req.password)
     /\ (last'.op = "Authenticate" /\ last'.verr \notin {ErrNil, ExpiredToken})
          => (/\ ~last'.ok
              /\ last'.asked = {}
              /\ last'.store = "none"
              /\ db' = db)
     /\ (last'.op = "Authenticate" /\ last'.verr \in {NoMatch, WrongPass})
          => ~StoredDP(db, last'.user, last'.password)]_vars

C16_Witness ==
  /\ last.op = "Authenticate" /\ db[last.user] # Nil /\ now > db[last.user].ValidUntil
  /\ last.password \in 1..MaxDP /\ ~StoredDP(db, last.user, last.password)
  /\ ~last.ok /\ last.asked = {}

\* C17: with an organization configured, validateAccessToken succeeds only when
\* the membership request for the token's user is answered 204; 404, 302, any
\* other status and a transport error make it fail, so a browser flow stores
\* nothing and a revalidation is refused.  With no organization configured no
\* membership request is made.
MembershipDenied(l) == l.prov.memberResp.neterr \/ l.prov.memberResp.status # StatusNoContent

C17_MembershipRequired ==
  [][(last'.op \in {"CreateToken", "Authenticate"} /\ last'.prov.userResp \in Logins)
       => IF config.Organization = ""
          THEN "member" \notin last'.asked /\ last'.prov.memberResp = NoMember
          ELSE /\ "member" \in last'.asked
               /\ MembershipDenied(last')
                    => (/\ ~last'.ok
                        /\ last'.err # ErrNil
                        /\ last'.store = "none"
                        /\ last'.shownDP = 0
                        /\ db' = db)]_vars

C17_Witness ==
  /\ Revalidating(last) /\ config.Organization # ""
  /\ last.prov.userResp = last.user
  /\ ~last.prov.memberResp.neterr /\ last.prov.memberResp.status = StatusNotFound
  /\ ~last.ok /\ db[last.user] # Nil

\* C18: a browser flow whose code exchange fails, whose exchange response is
\* unparsable or carries an error, or whose new token fails validation leaves
\* the TokenDB as it was and shows no DP, so the DPs issued before keep
\* validating; StoreToken is called only after validateAccessToken succeeded.
\* A failure of fetchTeams alone does not end the flow: the token is stored
\* with an empty teams label.
C18_FailedFlowStoresNothing ==
  [][/\ last'.op = "CreateToken"
       => /\ ~FlowValidated(last')
               => (/\ db' = db
                   /\ last'.store = "none"
                   /\ ~last'.ok
                   /\ last'.shownDP = 0 /\ last'.shownUser = ""
                   /\ last'.status \in {StatusServiceUnavailable, StatusBadRequest,
                                         StatusInternalServerError}
                   /\ \A u \in Logins, p \in Passwords :
                        ValidateToken(db', u, p, now', FALSE) =
                          ValidateToken(db, u, p, now, FALSE))
          /\ last'.store # "none" => FlowValidated(last')
          /\ (FlowValidated(last') /\ last'.teamsErr # ErrNil /\ DBCallsSucceeded(last'))
               => (/\ last'.ok /\ last'.store = "ok" /\ last'.status = StatusOK
                   /\ last'.arg.Labels = [teams |-> {}]
                   /\ last'.arg.AccessToken = last'.token
                   /\ last'.shownDP # 0)
     /\ \A c \in BagToSet(calls) :
          (c.pc = "store" /\ c.req.teamsErr # ErrNil /\ Left(c) /\ last' = Idle)
            => (/\ db'[c.req.user].Labels = [teams |-> {}]
                /\ db'[c.req.user].AccessToken = c.req.token)]_vars

C18_Witness ==
  /\ last.op = "CreateToken" /\ last.token # "" /\ last.prov.userResp = "parseerr"
  /\ last.status = StatusInternalServerError /\ last.store = "none"
  /\ \E u \in Logins : db[u] # Nil /\ \E p \in Passwords : DPValidates(u, p)

\* C19: for a user configured without a password (Password is nil)
\* staticUsersAuth.Authenticate returns (true, the user's labels, nil) for
\* every password supplied, the empty one included.
C19_NoPasswordAcceptsAll ==
  (sres.called /\ StaticEntry(sres.user) # Nil /\ StaticEntry(sres.user).Password = Nil)
    => (sres.ok /\ sres.labels = StaticEntry(sres.user).Labels /\ sres.err = ErrNil)

C19_Witness ==
  /\ sres.called /\ StaticEntry(sres.user) # Nil
  /\ StaticEntry(sres.user).Password = Nil
  /\ sres.password = "" /\ sres.ok /\ sres.labels # Nil

====
